---------------------------- MODULE Spec2Model ----------------------------
(***************************************************************************)
(* A model of the UDP audio server of src/src/udp_audio_server.py:        *)
(* ClientSession, the session registry, the packet pool, the watcher      *)
(* (debounce) pool, finalization (_process_complete_audio) and shutdown.  *)
(*                                                                         *)
(* Time is relative.  A session's last_packet_time is kept as the number  *)
(* of time units elapsed since it was written (saturating at the liveness *)
(* threshold, beyond which the code cannot tell two values apart) and a   *)
(* sleeping watcher keeps the time left of its sleep.  Time passes (Tick) *)
(* only while no thread has a step to take: computation is instantaneous, *)
(* sleeps, collaborator calls and waiting for datagrams take time.        *)
(* A critical section under one lock is one atomic step, and a step may   *)
(* carry the thread-local computation and the writes that follow it when  *)
(* no other thread's step in between could change the outcome.            *)
(***************************************************************************)
EXTENDS Integers, Sequences, FiniteSets, TLC

\* ------------------------------------------------------------------ bounds
\* Datagrams the clients send in one run.
MaxPackets == 2
\* How far from the size thresholds the lengths of the sample buffers go.
EdgeSlack == 1
\* How often in one run the model answers with tool calls, and how many at most.
MaxToolRounds == 3
MaxToolCalls == 3

\* ------------------------------------------------------- program constants
\* time.sleep(2.0) and the test time_since_last_packet >= 2.0
DebounceInterval == 2
\* ClientSession.is_active: time.time() - last_packet_time < 5.0
LivenessThreshold == 5
\* ThreadPoolExecutor(max_workers=2) of timeout_executor
TimeoutWorkers == 2
\* ThreadPoolExecutor(max_workers=10) of executor
ExecutorWorkers == 10
\* max_retries = 2
max_retries == 2
\* len(data) < 44
MinAudioSize == 44
\* return len(data) > 1000
RawPcmSize == 1000
\* convert_to_wav: 16-bit, 44100 Hz, mono
sample_rate == 44100
channels == 1
sample_width == 2

\* The client keys ("address:port") of the clients that may send.
ClientKeys == <<"10.0.0.1:4000", "10.0.0.2:4000", "10.0.0.3:4000">>

\* A 44-byte RIFF/WAVE header and a short chunk of raw bytes.
ChunkWav == <<82, 73, 70, 70, 36, 0, 0, 0, 87, 65, 86, 69>> \o [i \in 1..32 |-> 0]
ChunkRaw == <<1, 2, 3>>
PacketSet == {ChunkWav, ChunkRaw}

NoSession == 0

VARIABLES
    is_running,          \* UdpAudioServer.is_running
    server_socket,       \* "none" | "open" | "closed"
    executor_shutdown,   \* executor.shutdown() was called
    timeout_shutdown,    \* timeout_executor.shutdown() was called
    client_sessions,     \* the registry: client key -> session id or NoSession
    sessions,            \* the ClientSession objects ever created, by id
    main_pc,             \* main(): start_server ... stop_server
    listener_pc,         \* _run_server
    npackets,            \* datagrams received so far
    keys_seen,           \* how many of ClientKeys have sent so far
    handlers,            \* the _handle_packet task of each datagram
    timeout_queue,       \* watcher tasks submitted and not yet started
    workers,             \* the threads of timeout_executor
    log,                 \* per session: what was appended and read (history)
    finalization,        \* what the latest finalization did (history)
    locks,               \* the locks held: pairs of a thread and a lock
    graph_run            \* a run of the pipeline graph: its node and messages

vars == <<is_running, server_socket, executor_shutdown, timeout_shutdown,
          client_sessions, sessions, main_pc, listener_pc, npackets, keys_seen,
          handlers, timeout_queue, workers, log, finalization, locks, graph_run>>

\* ---------------------------------------------------------------- helpers
RECURSIVE SumLen(_)
SumLen(chunks) ==
    IF chunks = <<>> THEN 0 ELSE Len(Head(chunks)) + SumLen(Tail(chunks))

\* b''.join(chunks)
RECURSIVE Join(_)
Join(chunks) ==
    IF chunks = <<>> THEN <<>> ELSE Head(chunks) \o Join(Tail(chunks))

Min(a, b) == IF a < b THEN a ELSE b

\* ------------------------------------------------------------ ClientSession
\* __init__ with a fault: the session is born with a watcher marked as scheduled.
NewSession_scheduled(key) ==
    [client_key |-> key, packets |-> <<>>, total_size |-> 0, active |-> TRUE,
     last_packet_time |-> 0, processing_scheduled |-> TRUE]

\* ClientSession.__init__, lines 19-28
NewSession(key) ==
    [client_key |-> key, packets |-> <<>>, total_size |-> 0, active |-> TRUE,
     last_packet_time |-> 0, processing_scheduled |-> FALSE]

\* add_packet with a fault: the byte counter counts packets, not bytes.
add_packet_counts_packets(s, packet_data) ==
    IF s.active
    THEN [s EXCEPT !.packets = Append(@, packet_data),
                   !.total_size = @ + 1,
                   !.last_packet_time = 0]
    ELSE s

\* add_packet, under the session lock.
add_packet(s, packet_data) ==
    IF s.active
    THEN [s EXCEPT !.packets = Append(@, packet_data),
                   !.total_size = @ + Len(packet_data),
                   !.last_packet_time = 0]
    ELSE s

get_complete_audio_data(s) == Join(s.packets)

reset_timeout(s) == [s EXCEPT !.last_packet_time = 0]

is_active(s) == s.active /\ s.last_packet_time < LivenessThreshold

set_processed(s) == [s EXCEPT !.active = FALSE]

\* -------------------------------------------------- AudioConversionService
\* is_likely_audio_data with a fault: only the empty buffer is refused.
is_likely_audio_data_nonempty(data) == data # <<>>

\* is_likely_audio_data with a fault: the sync bytes are looked for up to the end.
is_likely_audio_data_to_end(data) ==
    IF data = <<>> \/ Len(data) < MinAudioSize THEN FALSE
    ELSE IF Len(data) >= 12 /\ SubSeq(data, 1, 4) = <<82, 73, 70, 70>>
                            /\ SubSeq(data, 9, 12) = <<87, 65, 86, 69>> THEN TRUE
    ELSE IF Len(data) >= 3 /\ SubSeq(data, 1, 3) = <<73, 68, 51>> THEN TRUE
    ELSE IF \E i \in 1..(Len(data) - 1) : data[i] = 255 /\ data[i + 1] >= 224 THEN TRUE
    ELSE Len(data) > RawPcmSize

\* is_likely_audio_data, lines 67-88
is_likely_audio_data(data) ==
    IF data = <<>> \/ Len(data) < MinAudioSize THEN FALSE
    ELSE IF Len(data) >= 12 /\ SubSeq(data, 1, 4) = <<82, 73, 70, 70>>
                            /\ SubSeq(data, 9, 12) = <<87, 65, 86, 69>> THEN TRUE
    ELSE IF Len(data) >= 3 /\ SubSeq(data, 1, 3) = <<73, 68, 51>> THEN TRUE
    ELSE IF \E i \in 1..(Len(data) - 3) : data[i] = 255 /\ data[i + 1] >= 224 THEN TRUE
    ELSE Len(data) > RawPcmSize

\* data[:4] == b'RIFF' and data[8:12] == b'WAVE'
has_wav_header(data) ==
    /\ Len(data) >= 12
    /\ SubSeq(data, 1, 4) = <<82, 73, 70, 70>>
    /\ SubSeq(data, 9, 12) = <<87, 65, 86, 69>>

\* An unsigned number in `width` bytes, little-endian.
LittleEndian(n, width) == [i \in 1..width |-> (n \div (256 ^ (i - 1))) % 256]

\* The header wave.open(..., 'wb') writes before `datalength` bytes of frames:
\* RIFF, size, WAVE, "fmt ", 16, PCM, channels, rate, bytes per second,
\* block align, bits per sample, "data", size.
wav_header(datalength) ==
    <<82, 73, 70, 70>> \o LittleEndian(36 + datalength, 4) \o <<87, 65, 86, 69>>
        \o <<102, 109, 116, 32>> \o LittleEndian(16, 4) \o LittleEndian(1, 2)
        \o LittleEndian(channels, 2) \o LittleEndian(sample_rate, 4)
        \o LittleEndian(channels * sample_rate * sample_width, 4)
        \o LittleEndian(channels * sample_width, 2)
        \o LittleEndian(sample_width * 8, 2)
        \o <<100, 97, 116, 97>> \o LittleEndian(datalength, 4)

\* convert_to_wav with a fault: the buffer is wrapped without looking for a header.
convert_to_wav_unlooked(audio_data) ==
    IF Len(audio_data) % 2 = 0
    THEN wav_header(Len(audio_data)) \o audio_data
    ELSE audio_data

\* convert_to_wav, lines 90-120
convert_to_wav(audio_data) ==
    IF has_wav_header(audio_data) THEN audio_data
    ELSE IF Len(audio_data) % 2 = 0
    THEN wav_header(Len(audio_data)) \o audio_data
    ELSE audio_data

\* ------------------------------------------------------------------- state
IdleHandler == [pc |-> "idle", client_key |-> "", packet_data |-> <<>>, session |-> NoSession]
IdleWorker == [pc |-> "idle", session |-> NoSession, remaining |-> 0, attempt |-> 0]
\* What is remembered of a session for the properties (history, not program state):
\* the chunks in the order add_packet appended them and the time since the last
\* append; how often the finalization body ran, the buffer it read and how long
\* after the last append; the transcription calls; whether a finalization returned;
\* and of each appended chunk the number of its datagram in the order of arrival.
NewLog == [appended |-> <<>>, append_age |-> 0, dispatched |-> 0, payload |-> <<>>,
           read_age |-> 0, transcribe_calls |-> 0, returned |-> FALSE, order |-> <<>>]

\* What is remembered of the finalization that last sent its response, until it
\* returns: its session, the buffer given to the transcription, how the
\* transcription ended, the calls of graph.invoke and how many of them raised, and
\* the responses in the order they were sent.
NoFinalization == [session |-> NoSession, wav_data |-> <<>>, transcription |-> "none",
                   invoke_calls |-> 0, invoke_raised |-> 0, responses |-> <<>>]

\* The value of finalization in the behaviours that do not keep this history.
Unaudited == [NoFinalization EXCEPT !.session = -1]

\* No thread holds a lock.
NoLocks == {}

\* No run of the pipeline graph is under way.
NoRun == [node |-> "none", messages |-> <<>>]

\* A ClientSession that neither the registry nor any task refers to is garbage:
\* nothing can read or write it again, and its memory is reclaimed.
Referenced(s, registry, hs, ws, queue) ==
    \/ \E k \in DOMAIN registry : registry[k] = s
    \/ \E p \in DOMAIN hs : hs[p].session = s
    \/ \E w \in DOMAIN ws : ws[w].session = s
    \/ \E i \in 1..Len(queue) : queue[i] = s

Collected ==
    [client_key |-> "", packets |-> <<>>, total_size |-> 0, active |-> FALSE,
     last_packet_time |-> LivenessThreshold, processing_scheduled |-> FALSE]

Reclaim(ss, registry, hs, ws, queue) ==
    [s \in DOMAIN ss |->
        IF Referenced(s, registry, hs, ws, queue) THEN ss[s] ELSE Collected]

\* The history of a reclaimed session keeps only whether it was finalized.
ReclaimLog(ll, registry, hs, ws, queue) ==
    [s \in DOMAIN ll |->
        IF Referenced(s, registry, hs, ws, queue) THEN ll[s]
        ELSE [NewLog EXCEPT !.returned = ll[s].returned]]

Init ==
    /\ is_running = FALSE
    /\ server_socket = "none"
    /\ executor_shutdown = FALSE
    /\ timeout_shutdown = FALSE
    /\ client_sessions = [k \in {ClientKeys[i] : i \in 1..Len(ClientKeys)} |-> NoSession]
    /\ sessions = <<>>
    /\ main_pc = "init"
    /\ listener_pc = "none"
    /\ npackets = 0
    /\ keys_seen = 0
    /\ handlers = [p \in 1..MaxPackets |-> IdleHandler]
    /\ timeout_queue = <<>>
    /\ workers = [w \in 1..TimeoutWorkers |-> IdleWorker]
    /\ log = <<>>
    /\ finalization = Unaudited
    /\ locks = NoLocks
    /\ graph_run = NoRun

\* -------------------------------------------------------------- main thread
\* start_server: submits _run_server to the packet pool.
StartServer ==
    /\ main_pc = "init"
    /\ main_pc' = "running"
    /\ listener_pc' = "init"
    /\ UNCHANGED <<locks, graph_run, is_running, server_socket, executor_shutdown, timeout_shutdown,
                   client_sessions, sessions, npackets, keys_seen, handlers,
                   timeout_queue, workers, log, finalization>>

\* stop_server, lines 191-202, called when the interrupt reaches main() in its
\* sleep loop (line 423), by when _run_server has bound the socket: the flag is
\* cleared, the socket closed, the registry cleared under its lock and both pools
\* shut down without waiting.
\* shutdown with a fault: the pool is left open.
shutdown_skipped(pool_shutdown) == pool_shutdown

\* lines 201-202: ThreadPoolExecutor.shutdown(wait=False) returns at once; from
\* then on the pool refuses submissions, and the tasks it already has still run.
shutdown(pool_shutdown) == TRUE

StopServer ==
    /\ main_pc = "running"
    /\ listener_pc # "init"
    /\ is_running' = FALSE
    /\ server_socket' = IF server_socket = "none" THEN "none" ELSE "closed"
    /\ client_sessions' = [k \in DOMAIN client_sessions |-> NoSession]
    /\ sessions' = Reclaim(sessions, client_sessions', handlers, workers, timeout_queue)
    /\ log' = ReclaimLog(log, client_sessions', handlers, workers, timeout_queue)
    /\ executor_shutdown' = shutdown(executor_shutdown)
    /\ timeout_shutdown' = shutdown(timeout_shutdown)
    /\ main_pc' = "stopped"
    /\ UNCHANGED <<locks, graph_run, listener_pc, npackets, keys_seen, handlers, timeout_queue, workers,
                   finalization>>

\* ---------------------------------------------------------------- listener
\* _run_server, lines 209-212: the socket is bound and the server runs.
RunServerBind ==
    /\ listener_pc = "init"
    /\ server_socket' = "open"
    /\ is_running' = TRUE
    /\ listener_pc' = "recv"
    /\ UNCHANGED <<locks, graph_run, executor_shutdown, timeout_shutdown, client_sessions, sessions,
                   main_pc, npackets, keys_seen, handlers, timeout_queue, workers, log, finalization>>

\* _run_server, lines 251-255: bind fails, the socket is closed, the loop never runs.
RunServerBindFails ==
    /\ listener_pc = "init"
    /\ server_socket' = "closed"
    /\ listener_pc' = "stopped"
    /\ UNCHANGED <<locks, graph_run, is_running, executor_shutdown, timeout_shutdown, client_sessions,
                   sessions, main_pc, npackets, keys_seen, handlers, timeout_queue,
                   workers, log, finalization>>

\* _run_server, lines 220-223: a datagram arrives.  A client that has not sent
\* before takes the next unused key (the keys are interchangeable).
Receive ==
    /\ listener_pc = "recv"
    /\ server_socket = "open"
    /\ npackets < Len(handlers)
    /\ \E i \in 1..Min(keys_seen + 1, Cardinality(DOMAIN client_sessions)),
          data \in PacketSet :
          /\ handlers' = [handlers EXCEPT ![npackets + 1] =
                 [pc |-> "received", client_key |-> ClientKeys[i],
                  packet_data |-> data, session |-> NoSession]]
          /\ keys_seen' = IF i > keys_seen THEN i ELSE keys_seen
    /\ npackets' = npackets + 1
    /\ listener_pc' = "submit"
    /\ UNCHANGED <<locks, graph_run, is_running, server_socket, executor_shutdown, timeout_shutdown,
                   client_sessions, sessions, main_pc, timeout_queue, workers, log, finalization>>

\* _run_server, lines 228-241 and the loop test of line 218: the task is submitted
\* if the server runs and the pool accepts it; otherwise the datagram is dropped.
Submit ==
    /\ listener_pc = "submit"
    /\ handlers' = [handlers EXCEPT ![npackets] =
           IF is_running /\ ~executor_shutdown THEN [@ EXCEPT !.pc = "check"]
           ELSE IdleHandler]
    /\ listener_pc' = IF is_running THEN "recv" ELSE "stopped"
    /\ server_socket' = IF is_running THEN server_socket ELSE "closed"
    /\ UNCHANGED <<locks, graph_run, is_running, executor_shutdown, timeout_shutdown, client_sessions,
                   sessions, main_pc, npackets, keys_seen, timeout_queue, workers, log, finalization>>

\* _run_server, lines 246-255: the socket was closed under the blocked receive,
\* which raises; the loop is left.
ListenerExit ==
    /\ listener_pc = "recv"
    /\ server_socket # "open"
    /\ listener_pc' = "stopped"
    /\ server_socket' = "closed"
    /\ UNCHANGED <<locks, graph_run, is_running, executor_shutdown, timeout_shutdown, client_sessions,
                   sessions, main_pc, npackets, keys_seen, handlers, timeout_queue,
                   workers, log, finalization>>

\* _run_server, lines 246-249: any other exception of the receive breaks the loop.
ListenerRecvError ==
    /\ listener_pc = "recv"
    /\ listener_pc' = "stopped"
    /\ server_socket' = "closed"
    /\ UNCHANGED <<locks, graph_run, is_running, executor_shutdown, timeout_shutdown, client_sessions,
                   sessions, main_pc, npackets, keys_seen, handlers, timeout_queue,
                   workers, log, finalization>>

\* ------------------------------------------------------------ _handle_packet
HandlerVarsUnchanged ==
    UNCHANGED <<locks, graph_run, is_running, server_socket, executor_shutdown, timeout_shutdown,
                main_pc, listener_pc, npackets, keys_seen, workers, finalization>>

\* The threads of executor in use: the listener and the handlers that run.
ExecutorBusy ==
    (IF listener_pc \in {"init", "recv", "submit"} THEN 1 ELSE 0)
        + Cardinality({p \in DOMAIN handlers :
              handlers[p].pc \notin {"idle", "received", "check"}})

\* The threads of timeout_executor in use.
TimeoutBusy == Cardinality({w \in DOMAIN workers : workers[w].pc # "idle"})

\* executor_free with a fault: handlers and watchers share the watcher pool.
executor_free_shared(packet_busy, watcher_busy) ==
    packet_busy + watcher_busy < TimeoutWorkers

\* lines 172-173 and 230: a submitted _handle_packet task starts when one of the
\* threads of executor is free; the threads of timeout_executor are not its.
executor_free(packet_busy, watcher_busy) == packet_busy < ExecutorWorkers

\* lines 262-263: the task starts; if not self.is_running: return
HandleCheck(p) ==
    /\ handlers[p].pc = "check"
    /\ executor_free(ExecutorBusy, TimeoutBusy)
    /\ handlers' = [handlers EXCEPT ![p] =
           IF is_running THEN [@ EXCEPT !.pc = "get"] ELSE IdleHandler]
    /\ UNCHANGED <<client_sessions, sessions, timeout_queue, log>>
    /\ HandlerVarsUnchanged

\* key_absent with a fault: the registry is not looked up, a session is always made.
key_absent_unlooked(registry, key) == TRUE

\* line 267: if client_key not in self.client_sessions
key_absent(registry, key) == registry[key] = NoSession

\* lines 266-271: get or create the session, under the registry lock
HandleGetOrCreate(p) ==
    /\ handlers[p].pc = "get"
    /\ LET key == handlers[p].client_key
           fresh == key_absent(client_sessions, key)
           id == IF fresh THEN Len(sessions) + 1 ELSE client_sessions[key]
       IN /\ sessions' = IF fresh THEN Append(sessions, NewSession(key)) ELSE sessions
          /\ log' = IF fresh THEN Append(log, NewLog) ELSE log
          /\ client_sessions' = [client_sessions EXCEPT ![key] = id]
          /\ handlers' = [handlers EXCEPT ![p] = [@ EXCEPT !.pc = "add", !.session = id]]
    /\ UNCHANGED timeout_queue
    /\ HandlerVarsUnchanged

\* should_arm with a fault: the flag is not tested.
should_arm_untested(s, running) == running

\* line 283: if not session.processing_scheduled and self.is_running
should_arm(s, running) == ~s.processing_scheduled /\ running

\* mark_scheduled with a fault: the flag is not set.
mark_scheduled_forgotten(s) == s

\* line 285: session.processing_scheduled = True
mark_scheduled(s) == [s EXCEPT !.processing_scheduled = TRUE]

\* lines 274-296: session.add_packet(packet_data) and session.reset_timeout(); then,
\* under the session lock, the watcher is armed if none is.  A pool that was shut
\* down refuses the task (RuntimeError) and the flag is put back: the session is
\* left as by a handler that found is_running false at line 283.
HandleAddPacket(p) ==
    /\ handlers[p].pc = "add"
    /\ handlers' = [handlers EXCEPT ![p] = IdleHandler]
    /\ LET s == handlers[p].session
           added == reset_timeout(add_packet(sessions[s], handlers[p].packet_data))
           arm == should_arm(added, is_running)
           armed == IF ~arm THEN added
                    ELSE IF timeout_shutdown
                    THEN [mark_scheduled(added) EXCEPT !.processing_scheduled = FALSE]
                    ELSE mark_scheduled(added)
           logged == IF sessions[s].active
                     THEN [log EXCEPT ![s] = [@ EXCEPT
                              !.appended = Append(@, handlers[p].packet_data),
                              !.append_age = 0,
                              !.order = Append(@, p)]]
                     ELSE log
       IN /\ timeout_queue' = IF arm /\ ~timeout_shutdown
                               THEN Append(timeout_queue, s) ELSE timeout_queue
          /\ sessions' = Reclaim([sessions EXCEPT ![s] = armed], client_sessions,
                                 handlers', workers, timeout_queue')
          /\ log' = ReclaimLog(logged, client_sessions, handlers', workers, timeout_queue')
    /\ UNCHANGED client_sessions
    /\ HandlerVarsUnchanged

\* ------------------------------------------------------------- watcher pool
WorkerVarsUnchanged ==
    UNCHANGED <<locks, graph_run, is_running, server_socket, executor_shutdown, timeout_shutdown,
                main_pc, listener_pc, npackets, keys_seen, handlers>>

\* _send_response with a fault: a failed send is answered by an ERROR response.
send_response_retried(f, status, reason) ==
    IF server_socket = "none" THEN f
    ELSE IF server_socket = "open"
    THEN [f EXCEPT !.responses = Append(@, [status |-> status, reason |-> reason,
                                            sent |-> TRUE])]
    ELSE [f EXCEPT !.responses =
              @ \o <<[status |-> status, reason |-> reason, sent |-> FALSE],
                     [status |-> "ERROR", reason |-> "send failed", sent |-> FALSE]>>]

\* _send_response: one sendto on the server socket; a failure is swallowed.
\* The response is recorded with whether the datagram left.
send_response(f, status, reason) ==
    IF server_socket = "none" THEN f
    ELSE [f EXCEPT !.responses =
              Append(@, [status |-> status, reason |-> reason,
                         sent |-> server_socket = "open"])]

\* A free thread of timeout_executor takes the oldest submitted task and enters
\* _schedule_processing: time.sleep(2.0).  Tasks submitted before shutdown(wait=False)
\* still run.  The free threads are interchangeable: the first one takes the task.
WorkerStart(w) ==
    /\ workers[w].pc = "idle"
    /\ \A v \in 1..(w - 1) : workers[v].pc # "idle"
    /\ timeout_queue # <<>>
    /\ workers' = [workers EXCEPT ![w] =
           [IdleWorker EXCEPT !.pc = "sleep", !.session = Head(timeout_queue),
                              !.remaining = DebounceInterval]]
    /\ timeout_queue' = Tail(timeout_queue)
    /\ UNCHANGED <<client_sessions, sessions, log, finalization>>
    /\ WorkerVarsUnchanged

\* lines 314-316: time_since_last_packet >= 2.0
is_quiet(s) == s.last_packet_time >= DebounceInterval

\* lines 311-328: the sleep is over.  If a packet came in the last 2.0 the watcher
\* sleeps again; else it finalizes if session.is_active() and self.is_running,
\* and otherwise ends without doing anything.
WatcherWake(w) ==
    /\ workers[w].pc = "sleep"
    /\ workers[w].remaining = 0
    /\ LET s == sessions[workers[w].session]
       IN workers' = [workers EXCEPT ![w] =
              IF ~is_quiet(s) THEN [@ EXCEPT !.remaining = DebounceInterval]
              ELSE IF is_active(s) /\ is_running THEN [@ EXCEPT !.pc = "guard"]
              ELSE IdleWorker]
    /\ sessions' = Reclaim(sessions, client_sessions, handlers, workers', timeout_queue)
    /\ log' = ReclaimLog(log, client_sessions, handlers, workers', timeout_queue)
    /\ UNCHANGED <<client_sessions, timeout_queue, finalization>>
    /\ WorkerVarsUnchanged

\* ---------------------------------------------------- _process_complete_audio
\* lines 334-335: if not session.is_active(): return
FinalizeGuard(w) ==
    /\ workers[w].pc = "guard"
    /\ workers' = [workers EXCEPT ![w] =
           IF is_active(sessions[workers[w].session])
           THEN [@ EXCEPT !.pc = "read"]
           ELSE IdleWorker]
    /\ sessions' = Reclaim(sessions, client_sessions, handlers, workers', timeout_queue)
    /\ log' = ReclaimLog(log, client_sessions, handlers, workers', timeout_queue)
    /\ UNCHANGED <<client_sessions, timeout_queue, finalization>>
    /\ WorkerVarsUnchanged

\* lines 338-342: the buffer is read under the session lock and tested
FinalizeRead(w) ==
    /\ workers[w].pc = "read"
    /\ LET s == workers[w].session
           complete_audio_data == get_complete_audio_data(sessions[s])
       IN /\ log' = [log EXCEPT ![s] = [@ EXCEPT !.dispatched = @ + 1,
                                                !.payload = complete_audio_data,
                                                !.read_age = log[s].append_age]]
          /\ workers' = [workers EXCEPT ![w] = [@ EXCEPT !.pc =
                 IF is_likely_audio_data(complete_audio_data)
                 THEN "dispatch" ELSE "invalid"]]
    /\ UNCHANGED <<client_sessions, sessions, timeout_queue, finalization>>
    /\ WorkerVarsUnchanged

\* The history of the finalization a worker is in: the latest one's if that is of
\* the same session, else a new one.
Current(w) ==
    IF finalization.session = workers[w].session THEN finalization
    ELSE [NoFinalization EXCEPT !.session = workers[w].session]

\* The end of the try block and line 390: the responses are sent and the session
\* is marked processed; the registry entry is removed next.
Finish(w, f, calls) ==
    /\ finalization' = IF finalization = Unaudited THEN Unaudited ELSE f
    /\ log' = [log EXCEPT ![workers[w].session] = [@ EXCEPT !.transcribe_calls = @ + calls]]
    /\ sessions' = [sessions EXCEPT ![workers[w].session] = set_processed(@)]
    /\ workers' = [workers EXCEPT ![w] = [@ EXCEPT !.pc = "finally_del"]]
    /\ UNCHANGED <<client_sessions, timeout_queue>>
    /\ WorkerVarsUnchanged

\* lines 343-345 and 390: the buffer is refused
RespondInvalid(w) ==
    /\ workers[w].pc = "invalid"
    /\ Finish(w, send_response(Current(w), "ERROR", "Invalid audio data"), 0)

\* transcribe_with_eleven_labs, lines 140-150: the text of the response; on a
\* failure (a status other than 200, or an exception) the exception is caught
\* and the text "Transcription failed: ..." is returned as the transcript.
transcribe_with_eleven_labs(ok) == IF ok THEN "text" ELSE "Transcription failed"

\* line 366: if attempt == max_retries
last_attempt(attempt) == attempt = max_retries

\* invoke_with_retry with a fault: the exception of the last attempt is swallowed.
RECURSIVE invoke_with_retry_swallowed(_, _)
invoke_with_retry_swallowed(attempt, raises) ==
    IF raises = 0 THEN [calls |-> attempt + 1, raised |-> FALSE]
    ELSE IF attempt = max_retries THEN [calls |-> attempt + 1, raised |-> FALSE]
    ELSE invoke_with_retry_swallowed(attempt + 1, raises - 1)

\* lines 361-371: the retry loop, where graph.invoke raises `raises` times in a row
\* before it would return: the number of calls made and whether the loop re-raised
RECURSIVE invoke_with_retry(_, _)
invoke_with_retry(attempt, raises) ==
    IF raises = 0 THEN [calls |-> attempt + 1, raised |-> FALSE]
    ELSE IF last_attempt(attempt) THEN [calls |-> attempt + 1, raised |-> TRUE]
    ELSE invoke_with_retry(attempt + 1, raises - 1)

\* lines 373-386: the SUCCESS response is sent; when the output is empty or has no
\* 'messages' entry, print(agent_response) then raises (the name is unbound) and
\* the handler of line 383 sends an ERROR response as well.
respond_to_output(l, output) ==
    CASE output = "messages" -> send_response(l, "SUCCESS", "Agent Response")
      [] output = "empty_messages" -> send_response(l, "SUCCESS", "No response")
      [] OTHER -> send_response(send_response(l, "SUCCESS", "No output received"),
                                "ERROR", "agent_response is not bound")

\* lines 348-386: the buffer is converted (convert_and_transcribe, line 157) and
\* given to the two collaborators.  ok: the transcription call succeeds; raises:
\* how often graph.invoke raises before it would return; output: what it then
\* returns.
dispatch(f, audio_data, ok, raises, output) ==
    LET wav_data == convert_to_wav(audio_data)
        transcript == transcribe_with_eleven_labs(ok)
        f1 == [f EXCEPT !.wav_data = wav_data,
                        !.transcription = IF transcript = "text" THEN "ok" ELSE "failed"]
        loop == invoke_with_retry(0, raises)
        f2 == [f1 EXCEPT !.invoke_calls = @ + loop.calls,
                         !.invoke_raised = @ + IF loop.raised THEN loop.calls ELSE raises]
    IN IF loop.raised THEN send_response(f2, "ERROR", "pipeline error")
       ELSE respond_to_output(f2, output)

\* What the collaborators may do.  Where no history of the finalization is kept
\* every outcome leads to the same state, and one stands for all.
Outcomes ==
    IF finalization = Unaudited
    THEN {[ok |-> TRUE, raises |-> 0, output |-> "messages"]}
    ELSE [ok : BOOLEAN, raises : 0..(max_retries + 1),
          output : {"messages", "empty_messages", "no_messages"}]

\* lines 348-390: the collaborator calls return (each blocks its thread for as
\* long as it takes; nothing shared is touched in between), the response is sent
\* and the session marked processed.  The buffer is the thread's
\* complete_audio_data, read at line 338.
Dispatch(w) ==
    /\ workers[w].pc = "dispatch"
    /\ \E o \in Outcomes :
          Finish(w, dispatch(Current(w), log[workers[w].session].payload,
                             o.ok, o.raises, o.output), 1)

\* remove_session with a fault: the entry is left in the registry.
remove_session_skipped(registry, client_key) == registry

\* lines 391-393: if client_key in self.client_sessions: del self.client_sessions[client_key]
remove_session(registry, client_key) == [registry EXCEPT ![client_key] = NoSession]

\* lines 391-394: the entry of the key is removed under the registry lock and
\* _process_complete_audio returns
FinallyRemove(w) ==
    /\ workers[w].pc = "finally_del"
    /\ client_sessions' =
           remove_session(client_sessions, sessions[workers[w].session].client_key)
    /\ workers' = [workers EXCEPT ![w] = IdleWorker]
    /\ sessions' = Reclaim(sessions, client_sessions', handlers, workers', timeout_queue)
    /\ log' = ReclaimLog([log EXCEPT ![workers[w].session] = [@ EXCEPT !.returned = TRUE]],
                         client_sessions', handlers, workers', timeout_queue)
    /\ finalization' = IF finalization.session = workers[w].session
                       THEN NoFinalization ELSE finalization
    /\ UNCHANGED timeout_queue
    /\ WorkerVarsUnchanged

\* --------------------------------------------------------------------- time
\* A thread has a step to take now.
Busy ==
    \/ main_pc \notin {"running", "stopped"}
    \/ listener_pc \in {"init", "submit"}
    \/ listener_pc = "recv" /\ server_socket # "open"
    \/ \E p \in DOMAIN handlers : handlers[p].pc \notin {"idle", "received"}
    \/ \E w \in DOMAIN workers :
          \/ workers[w].pc \notin {"idle", "sleep", "dispatch"}
          \/ workers[w].pc = "sleep" /\ workers[w].remaining = 0
          \/ workers[w].pc = "idle" /\ timeout_queue # <<>>

\* One time unit passes.
Tick ==
    /\ ~Busy
    /\ sessions' = [s \in DOMAIN sessions |-> [sessions[s] EXCEPT !.last_packet_time =
                        Min(@ + 1, LivenessThreshold)]]
    /\ log' = [s \in DOMAIN log |-> [log[s] EXCEPT !.append_age =
                        Min(@ + 1, LivenessThreshold)]]
    /\ workers' = [w \in DOMAIN workers |->
                      IF workers[w].pc = "sleep"
                      THEN [workers[w] EXCEPT !.remaining = @ - 1]
                      ELSE workers[w]]
    /\ UNCHANGED <<locks, graph_run, is_running, server_socket, executor_shutdown, timeout_shutdown,
                   client_sessions, main_pc, listener_pc, npackets, keys_seen,
                   handlers, timeout_queue, finalization>>

\* ------------------------------------------------------------ specification
Next ==
    \/ StartServer
    \/ StopServer
    \/ RunServerBind
    \/ RunServerBindFails
    \/ Receive
    \/ ListenerRecvError
    \/ Submit
    \/ ListenerExit
    \/ \E p \in DOMAIN handlers : HandleCheck(p)
    \/ \E p \in DOMAIN handlers : HandleGetOrCreate(p)
    \/ \E p \in DOMAIN handlers : HandleAddPacket(p)
    \/ \E w \in DOMAIN workers : WorkerStart(w)
    \/ \E w \in DOMAIN workers : WatcherWake(w)
    \/ \E w \in DOMAIN workers : FinalizeGuard(w)
    \/ \E w \in DOMAIN workers : FinalizeRead(w)
    \/ \E w \in DOMAIN workers : RespondInvalid(w)
    \/ \E w \in DOMAIN workers : Dispatch(w)
    \/ \E w \in DOMAIN workers : FinallyRemove(w)
    \/ Tick

Spec == Init /\ [][Next]_vars

\* The same program, with the history of each finalization kept.
InitAudit ==
    /\ is_running = FALSE
    /\ server_socket = "none"
    /\ executor_shutdown = FALSE
    /\ timeout_shutdown = FALSE
    /\ client_sessions = [k \in {ClientKeys[i] : i \in 1..Len(ClientKeys)} |-> NoSession]
    /\ sessions = <<>>
    /\ main_pc = "init"
    /\ listener_pc = "none"
    /\ npackets = 0
    /\ keys_seen = 0
    /\ handlers = [p \in 1..MaxPackets |-> IdleHandler]
    /\ timeout_queue = <<>>
    /\ workers = [w \in 1..TimeoutWorkers |-> IdleWorker]
    /\ log = <<>>
    /\ finalization = NoFinalization
    /\ locks = NoLocks
    /\ graph_run = NoRun

AuditSpec == InitAudit /\ [][Next]_vars

\* The same again with a single client sending all the datagrams.
InitOneClient ==
    /\ is_running = FALSE
    /\ server_socket = "none"
    /\ executor_shutdown = FALSE
    /\ timeout_shutdown = FALSE
    /\ client_sessions = [k \in {ClientKeys[1]} |-> NoSession]
    /\ sessions = <<>>
    /\ main_pc = "init"
    /\ listener_pc = "none"
    /\ npackets = 0
    /\ keys_seen = 0
    /\ handlers = [p \in 1..MaxPackets |-> IdleHandler]
    /\ timeout_queue = <<>>
    /\ workers = [w \in 1..TimeoutWorkers |-> IdleWorker]
    /\ log = <<>>
    /\ finalization = NoFinalization
    /\ locks = NoLocks
    /\ graph_run = NoRun

OneClientSpec == InitOneClient /\ [][Next]_vars

\* ------------------------------------------------ one client sends a burst
\* The client sends its datagrams less than DebounceInterval apart and then goes
\* quiet: a datagram arrives only while less than DebounceInterval has passed
\* since the last one was buffered.
ReceiveInBurst ==
    /\ \A s \in DOMAIN sessions : sessions[s].last_packet_time < DebounceInterval
    /\ Receive

\* The steps of a server that is never stopped, with that client.
NextBurst ==
    \/ StartServer
    \/ RunServerBind
    \/ ReceiveInBurst
    \/ Submit
    \/ \E p \in DOMAIN handlers : HandleCheck(p)
    \/ \E p \in DOMAIN handlers : HandleGetOrCreate(p)
    \/ \E p \in DOMAIN handlers : HandleAddPacket(p)
    \/ \E w \in DOMAIN workers : WorkerStart(w)
    \/ \E w \in DOMAIN workers : WatcherWake(w)
    \/ \E w \in DOMAIN workers : FinalizeGuard(w)
    \/ \E w \in DOMAIN workers : FinalizeRead(w)
    \/ \E w \in DOMAIN workers : RespondInvalid(w)
    \/ \E w \in DOMAIN workers : Dispatch(w)
    \/ \E w \in DOMAIN workers : FinallyRemove(w)
    \/ Tick

BurstSpec == InitOneClient /\ [][NextBurst]_vars

\* -------------------------------------------- the server that keeps running
\* More clients than timeout_executor has threads: one datagram more than MaxPackets.
InitLeak ==
    /\ is_running = FALSE
    /\ server_socket = "none"
    /\ executor_shutdown = FALSE
    /\ timeout_shutdown = FALSE
    /\ client_sessions = [k \in {ClientKeys[i] : i \in 1..Len(ClientKeys)} |-> NoSession]
    /\ sessions = <<>>
    /\ main_pc = "init"
    /\ listener_pc = "none"
    /\ npackets = 0
    /\ keys_seen = 0
    /\ handlers = [p \in 1..(MaxPackets + 1) |-> IdleHandler]
    /\ timeout_queue = <<>>
    /\ workers = [w \in 1..TimeoutWorkers |-> IdleWorker]
    /\ log = <<>>
    /\ finalization = Unaudited
    /\ locks = NoLocks
    /\ graph_run = NoRun

\* The steps of a server that is never stopped.
NextRunning ==
    \/ StartServer
    \/ RunServerBind
    \/ Receive
    \/ Submit
    \/ \E p \in DOMAIN handlers : HandleCheck(p)
    \/ \E p \in DOMAIN handlers : HandleGetOrCreate(p)
    \/ \E p \in DOMAIN handlers : HandleAddPacket(p)
    \/ \E w \in DOMAIN workers : WorkerStart(w)
    \/ \E w \in DOMAIN workers : WatcherWake(w)
    \/ \E w \in DOMAIN workers : FinalizeGuard(w)
    \/ \E w \in DOMAIN workers : FinalizeRead(w)
    \/ \E w \in DOMAIN workers : RespondInvalid(w)
    \/ \E w \in DOMAIN workers : Dispatch(w)
    \/ \E w \in DOMAIN workers : FinallyRemove(w)
    \/ Tick

\* Every thread of the pools and the listener gets to run, time passes, and the
\* collaborator calls return.  Clients are free to stop sending.
Fairness ==
    /\ WF_vars(StartServer)
    /\ WF_vars(RunServerBind)
    /\ WF_vars(Submit)
    /\ \A p \in 1..(MaxPackets + 1) :
          WF_vars(HandleCheck(p) \/ HandleGetOrCreate(p) \/ HandleAddPacket(p))
    /\ \A w \in 1..TimeoutWorkers :
          WF_vars(WorkerStart(w) \/ WatcherWake(w) \/ FinalizeGuard(w) \/ FinalizeRead(w)
                    \/ RespondInvalid(w) \/ Dispatch(w) \/ FinallyRemove(w))
    /\ WF_vars(Tick)

LeakSpec == InitLeak /\ [][NextRunning]_vars /\ Fairness

\* ---------------------------- _process_complete_audio called twice on a session
\* The buffers a session may hold: one to MaxPackets chunks.
RECURSIVE Buffers(_)
Buffers(n) ==
    IF n = 0 THEN {<<>>}
    ELSE Buffers(n - 1) \cup {Append(b, c) : b \in Buffers(n - 1), c \in PacketSet}

\* A running server with one registered, quiet session, and two threads that each
\* enter _process_complete_audio(session) on it.  A thread may run to its return
\* before the other takes its first step (the sequential case) or not.
InitTwice ==
    /\ is_running = TRUE
    /\ server_socket = "open"
    /\ executor_shutdown = FALSE
    /\ timeout_shutdown = FALSE
    /\ client_sessions = [k \in {ClientKeys[i] : i \in 1..Len(ClientKeys)} |->
                             IF k = ClientKeys[1] THEN 1 ELSE NoSession]
    /\ \E b \in Buffers(MaxPackets) \ {<<>>} :
          /\ sessions = <<[NewSession(ClientKeys[1]) EXCEPT
                             !.packets = b, !.total_size = SumLen(b),
                             !.last_packet_time = DebounceInterval,
                             !.processing_scheduled = TRUE]>>
          /\ log = <<[NewLog EXCEPT !.appended = b, !.append_age = DebounceInterval,
                                   !.order = [i \in 1..Len(b) |-> i]]>>
    /\ main_pc = "running"
    /\ listener_pc = "recv"
    /\ npackets = MaxPackets
    /\ keys_seen = 1
    /\ handlers = [p \in 1..MaxPackets |-> IdleHandler]
    /\ timeout_queue = <<>>
    /\ workers = [w \in 1..TimeoutWorkers |-> [IdleWorker EXCEPT !.pc = "guard", !.session = 1]]
    /\ finalization = NoFinalization
    /\ locks = NoLocks
    /\ graph_run = NoRun

NextTwice ==
    \/ \E w \in DOMAIN workers : FinalizeGuard(w)
    \/ \E w \in DOMAIN workers : FinalizeRead(w)
    \/ \E w \in DOMAIN workers : RespondInvalid(w)
    \/ \E w \in DOMAIN workers : Dispatch(w)
    \/ \E w \in DOMAIN workers : FinallyRemove(w)
    \/ Tick

TwiceSpec == InitTwice /\ [][NextTwice]_vars

\* ------------------------------------------- one buffer through finalization
Zeros(n) == [i \in 1..n |-> 0]

\* The buffer with `bytes` written over it from position i on.
Overwrite(buffer, i, bytes) ==
    [j \in 1..Len(buffer) |->
        IF j \in i..(i + Len(bytes) - 1) THEN bytes[j - i + 1] ELSE buffer[j]]

\* The lengths of the sample buffers: none, too short for any header, and around
\* the two size thresholds.
SampleLengths ==
    {0, 3, 12}
        \cup {n \in (MinAudioSize - EdgeSlack)..(MinAudioSize + EdgeSlack) : n > 12}
        \cup (RawPcmSize - EdgeSlack)..(RawPcmSize + EdgeSlack)

\* What a sample buffer of n bytes may hold: nothing, a RIFF/WAVE header, RIFF
\* without WAVE, an ID3 tag, and the bytes FF E0, FF FF and FF DF at its start and
\* FF E0 in each of its last places.
SamplesOfLength(n) ==
    LET marks == {<<1, <<82, 73, 70, 70, 36, 0, 0, 0, 87, 65, 86, 69>>>>,
                  <<1, <<82, 73, 70, 70>>>>,
                  <<1, <<73, 68, 51>>>>,
                  <<1, <<255, 224>>>>,
                  <<1, <<255, 255>>>>,
                  <<1, <<255, 223>>>>,
                  <<n - 3, <<255, 224>>>>,
                  <<n - 2, <<255, 224>>>>,
                  <<n - 1, <<255, 224>>>>}
    IN {Zeros(n)} \cup
       {Overwrite(Zeros(n), m[1], m[2]) :
           m \in {k \in marks : k[1] >= 1 /\ k[1] + Len(k[2]) - 1 <= n}}

SampleBuffers == UNION {SamplesOfLength(n) : n \in SampleLengths}

\* A running server with one registered, quiet session that holds one datagram, a
\* sample buffer, and a watcher that enters _process_complete_audio(session).
InitBuffer ==
    /\ is_running = TRUE
    /\ server_socket = "open"
    /\ executor_shutdown = FALSE
    /\ timeout_shutdown = FALSE
    /\ client_sessions = [k \in {ClientKeys[1]} |-> 1]
    /\ \E b \in SampleBuffers :
          /\ sessions = <<[NewSession(ClientKeys[1]) EXCEPT
                             !.packets = <<b>>, !.total_size = Len(b),
                             !.last_packet_time = DebounceInterval,
                             !.processing_scheduled = TRUE]>>
          /\ log = <<[NewLog EXCEPT !.appended = <<b>>, !.append_age = DebounceInterval,
                                   !.order = <<1>>]>>
    /\ main_pc = "running"
    /\ listener_pc = "recv"
    /\ npackets = MaxPackets
    /\ keys_seen = 1
    /\ handlers = [p \in 1..MaxPackets |-> IdleHandler]
    /\ timeout_queue = <<>>
    /\ workers = [w \in 1..TimeoutWorkers |->
                     IF w = 1 THEN [IdleWorker EXCEPT !.pc = "guard", !.session = 1]
                     ELSE IdleWorker]
    /\ finalization = NoFinalization
    /\ locks = NoLocks
    /\ graph_run = NoRun

BufferSpec == InitBuffer /\ [][NextTwice]_vars

\* ------------------------------------- the critical sections, step by step
\* The same server with every `with lock:` in two steps: the lock is taken (the
\* thread waits while another holds it), then the block runs and the lock is
\* given back.  ClientSession._lock of session s is lock s, and
\* UdpAudioServer._sessions_lock is RegistryLock.
RegistryLock == 0

MainThread == <<"main", 0>>
HandlerThread(p) == <<"handler", p>>
WorkerThread(w) == <<"worker", w>>

\* The locks a thread holds.
held(thread) == {x[2] : x \in {y \in locks : y[1] = thread}}

\* threading.Lock is free when no thread holds it (the thread itself included).
lock_free(lock) == \A x \in locks : x[2] # lock

\* with lock: __enter__
acquire(pairs, thread, lock) == pairs \cup {<<thread, lock>>}

\* release with a fault: the lock is kept.
release_forgotten(pairs, thread, lock) == pairs

\* with lock: __exit__
release(pairs, thread, lock) == pairs \ {<<thread, lock>>}

\* The lock a handler takes next: the registry lock of line 266, the session lock
\* of add_packet (line 32) and the session lock of line 282.
HandlerAcquire(p) ==
    /\ handlers[p].pc \in {"get", "add", "arm"}
    /\ LET lock == IF handlers[p].pc = "get" THEN RegistryLock ELSE handlers[p].session
       IN /\ lock_free(lock)
          /\ locks' = acquire(locks, HandlerThread(p), lock)
    /\ handlers' = [handlers EXCEPT ![p] = [@ EXCEPT !.pc =
           CASE handlers[p].pc = "get" -> "get_locked"
             [] handlers[p].pc = "add" -> "add_locked"
             [] OTHER -> "arm_locked"]]
    /\ UNCHANGED <<graph_run, is_running, server_socket, executor_shutdown,
                   timeout_shutdown, client_sessions, sessions, main_pc, listener_pc,
                   npackets, keys_seen, timeout_queue, workers, log, finalization>>

\* lines 267-271, under the registry lock
GetOrCreateLocked(p) ==
    /\ handlers[p].pc = "get_locked"
    /\ LET key == handlers[p].client_key
           fresh == key_absent(client_sessions, key)
           id == IF fresh THEN Len(sessions) + 1 ELSE client_sessions[key]
       IN /\ sessions' = IF fresh THEN Append(sessions, NewSession(key)) ELSE sessions
          /\ log' = IF fresh THEN Append(log, NewLog) ELSE log
          /\ client_sessions' = [client_sessions EXCEPT ![key] = id]
          /\ handlers' = [handlers EXCEPT ![p] = [@ EXCEPT !.pc = "add", !.session = id]]
    /\ locks' = release(locks, HandlerThread(p), RegistryLock)
    /\ UNCHANGED <<graph_run, is_running, server_socket, executor_shutdown,
                   timeout_shutdown, main_pc, listener_pc, npackets, keys_seen,
                   timeout_queue, workers, finalization>>

\* add_packet, lines 33-36, under the session lock
AddPacketLocked(p) ==
    /\ handlers[p].pc = "add_locked"
    /\ LET s == handlers[p].session
       IN /\ sessions' = [sessions EXCEPT ![s] = add_packet(@, handlers[p].packet_data)]
          /\ log' = IF sessions[s].active
                    THEN [log EXCEPT ![s] = [@ EXCEPT
                             !.appended = Append(@, handlers[p].packet_data),
                             !.append_age = 0,
                             !.order = Append(@, p)]]
                    ELSE log
          /\ locks' = release(locks, HandlerThread(p), s)
    /\ handlers' = [handlers EXCEPT ![p] = [@ EXCEPT !.pc = "reset"]]
    /\ UNCHANGED <<graph_run, is_running, server_socket, executor_shutdown,
                   timeout_shutdown, client_sessions, main_pc, listener_pc, npackets,
                   keys_seen, timeout_queue, workers, finalization>>

\* line 278: session.reset_timeout(), under no lock
ResetTimeout(p) ==
    /\ handlers[p].pc = "reset"
    /\ sessions' = [sessions EXCEPT ![handlers[p].session] = reset_timeout(@)]
    /\ handlers' = [handlers EXCEPT ![p] = [@ EXCEPT !.pc = "arm"]]
    /\ UNCHANGED <<locks, graph_run, is_running, server_socket, executor_shutdown,
                   timeout_shutdown, client_sessions, main_pc, listener_pc, npackets,
                   keys_seen, timeout_queue, workers, log, finalization>>

\* lines 283-296, under the session lock: the watcher is armed if none is
ArmLocked(p) ==
    /\ handlers[p].pc = "arm_locked"
    /\ handlers' = [handlers EXCEPT ![p] = IdleHandler]
    /\ LET s == handlers[p].session
           arm == should_arm(sessions[s], is_running)
           armed == IF ~arm THEN sessions[s]
                    ELSE IF timeout_shutdown
                    THEN [mark_scheduled(sessions[s]) EXCEPT !.processing_scheduled = FALSE]
                    ELSE mark_scheduled(sessions[s])
       IN /\ timeout_queue' = IF arm /\ ~timeout_shutdown
                               THEN Append(timeout_queue, s) ELSE timeout_queue
          /\ sessions' = Reclaim([sessions EXCEPT ![s] = armed], client_sessions,
                                 handlers', workers, timeout_queue')
          /\ log' = ReclaimLog(log, client_sessions, handlers', workers, timeout_queue')
          /\ locks' = release(locks, HandlerThread(p), s)
    /\ UNCHANGED <<graph_run, is_running, server_socket, executor_shutdown,
                   timeout_shutdown, client_sessions, main_pc, listener_pc, npackets,
                   keys_seen, workers, finalization>>

\* The lock a finalization takes next: the session lock of get_complete_audio_data
\* (line 40) and the registry lock of line 391.
WorkerAcquire(w) ==
    /\ workers[w].pc \in {"read", "finally_del"}
    /\ LET lock == IF workers[w].pc = "read" THEN workers[w].session ELSE RegistryLock
       IN /\ lock_free(lock)
          /\ locks' = acquire(locks, WorkerThread(w), lock)
    /\ workers' = [workers EXCEPT ![w] = [@ EXCEPT !.pc =
           IF workers[w].pc = "read" THEN "read_locked" ELSE "del_locked"]]
    /\ UNCHANGED <<graph_run, is_running, server_socket, executor_shutdown,
                   timeout_shutdown, client_sessions, sessions, main_pc, listener_pc,
                   npackets, keys_seen, handlers, timeout_queue, log, finalization>>

\* get_complete_audio_data, lines 41-42, under the session lock; then line 342
ReadLocked(w) ==
    /\ workers[w].pc = "read_locked"
    /\ LET s == workers[w].session
           complete_audio_data == get_complete_audio_data(sessions[s])
       IN /\ log' = [log EXCEPT ![s] = [@ EXCEPT !.dispatched = @ + 1,
                                                !.payload = complete_audio_data,
                                                !.read_age = log[s].append_age]]
          /\ workers' = [workers EXCEPT ![w] = [@ EXCEPT !.pc =
                 IF is_likely_audio_data(complete_audio_data)
                 THEN "dispatch" ELSE "invalid"]]
          /\ locks' = release(locks, WorkerThread(w), s)
    /\ UNCHANGED <<graph_run, is_running, server_socket, executor_shutdown,
                   timeout_shutdown, client_sessions, sessions, main_pc, listener_pc,
                   npackets, keys_seen, handlers, timeout_queue, finalization>>

\* lines 392-394, under the registry lock
RemoveLocked(w) ==
    /\ workers[w].pc = "del_locked"
    /\ client_sessions' =
           remove_session(client_sessions, sessions[workers[w].session].client_key)
    /\ workers' = [workers EXCEPT ![w] = IdleWorker]
    /\ sessions' = Reclaim(sessions, client_sessions', handlers, workers', timeout_queue)
    /\ log' = ReclaimLog([log EXCEPT ![workers[w].session] = [@ EXCEPT !.returned = TRUE]],
                         client_sessions', handlers, workers', timeout_queue)
    /\ finalization' = IF finalization.session = workers[w].session
                       THEN NoFinalization ELSE finalization
    /\ locks' = release(locks, WorkerThread(w), RegistryLock)
    /\ UNCHANGED <<graph_run, is_running, server_socket, executor_shutdown,
                   timeout_shutdown, main_pc, listener_pc, npackets, keys_seen, handlers,
                   timeout_queue>>

\* stop_server, lines 191-194: the flag is cleared and the socket closed
StopFlag ==
    /\ main_pc = "running"
    /\ listener_pc # "init"
    /\ is_running' = FALSE
    /\ server_socket' = IF server_socket = "none" THEN "none" ELSE "closed"
    /\ main_pc' = "stopping"
    /\ UNCHANGED <<locks, graph_run, executor_shutdown, timeout_shutdown,
                   client_sessions, sessions, listener_pc, npackets, keys_seen, handlers,
                   timeout_queue, workers, log, finalization>>

\* stop_server, line 197: the registry lock is taken
MainAcquire ==
    /\ main_pc = "stopping"
    /\ lock_free(RegistryLock)
    /\ locks' = acquire(locks, MainThread, RegistryLock)
    /\ main_pc' = "clear_locked"
    /\ UNCHANGED <<graph_run, is_running, server_socket, executor_shutdown,
                   timeout_shutdown, client_sessions, sessions, listener_pc, npackets,
                   keys_seen, handlers, timeout_queue, workers, log, finalization>>

\* stop_server, lines 198-202: the registry is cleared under its lock, then both
\* pools are shut down
ClearLocked ==
    /\ main_pc = "clear_locked"
    /\ client_sessions' = [k \in DOMAIN client_sessions |-> NoSession]
    /\ sessions' = Reclaim(sessions, client_sessions', handlers, workers, timeout_queue)
    /\ log' = ReclaimLog(log, client_sessions', handlers, workers, timeout_queue)
    /\ locks' = release(locks, MainThread, RegistryLock)
    /\ executor_shutdown' = shutdown(executor_shutdown)
    /\ timeout_shutdown' = shutdown(timeout_shutdown)
    /\ main_pc' = "stopped"
    /\ UNCHANGED <<graph_run, is_running, server_socket, listener_pc, npackets,
                   keys_seen, handlers, timeout_queue, workers, finalization>>

NextLock ==
    \/ StartServer
    \/ StopFlag
    \/ MainAcquire
    \/ ClearLocked
    \/ RunServerBind
    \/ RunServerBindFails
    \/ Receive
    \/ ListenerRecvError
    \/ Submit
    \/ ListenerExit
    \/ \E p \in DOMAIN handlers : HandleCheck(p)
    \/ \E p \in DOMAIN handlers : HandlerAcquire(p)
    \/ \E p \in DOMAIN handlers : GetOrCreateLocked(p)
    \/ \E p \in DOMAIN handlers : AddPacketLocked(p)
    \/ \E p \in DOMAIN handlers : ResetTimeout(p)
    \/ \E p \in DOMAIN handlers : ArmLocked(p)
    \/ \E w \in DOMAIN workers : WorkerStart(w)
    \/ \E w \in DOMAIN workers : WatcherWake(w)
    \/ \E w \in DOMAIN workers : FinalizeGuard(w)
    \/ \E w \in DOMAIN workers : WorkerAcquire(w)
    \/ \E w \in DOMAIN workers : ReadLocked(w)
    \/ \E w \in DOMAIN workers : RespondInvalid(w)
    \/ \E w \in DOMAIN workers : Dispatch(w)
    \/ \E w \in DOMAIN workers : RemoveLocked(w)
    \/ Tick

LockSpec == Init /\ [][NextLock]_vars

\* ------------------------------------------------------- the pipeline graph
\* The graph of create_research_brief_workflow: START -> llm_with_tools,
\* llm_with_tools -> is_tool_required, tool_node -> llm_with_tools.
START == "__start__"
END == "__end__"

server_vars == <<is_running, server_socket, executor_shutdown, timeout_shutdown,
                 client_sessions, sessions, main_pc, listener_pc, npackets, keys_seen,
                 handlers, timeout_queue, workers, log, finalization, locks>>

\* The messages of the state: the input, the answers of the model with the number
\* of their tool calls, and the results of the tools.
HumanMessage == [type |-> "human", tool_calls |-> 0]
AIMessage(calls) == [type |-> "ai", tool_calls |-> calls]
ToolMessage == [type |-> "tool", tool_calls |-> 0]

\* hasattr(lastMessage, "tool_calls"): an AIMessage has the attribute.
has_tool_calls_attr(message) == message.type = "ai"

\* is_tool_required with a fault: the list of tool calls is not looked at.
is_tool_required_unlooked(messages) ==
    LET lastMessage == messages[Len(messages)]
    IN IF has_tool_calls_attr(lastMessage) THEN "tool_node" ELSE END

\* is_tool_required, nodes.py lines 12-20
is_tool_required(messages) ==
    LET lastMessage == messages[Len(messages)]
    IN IF has_tool_calls_attr(lastMessage) /\ lastMessage.tool_calls > 0
       THEN "tool_node" ELSE END

\* The answers with tool calls so far in the run.
ToolRounds(messages) ==
    Cardinality({i \in 1..Len(messages) :
                    messages[i].type = "ai" /\ messages[i].tool_calls > 0})

\* graph.invoke({"messages": transcript, ...}): a run is at START with its input.
InitGraph ==
    /\ is_running = FALSE
    /\ server_socket = "none"
    /\ executor_shutdown = FALSE
    /\ timeout_shutdown = FALSE
    /\ client_sessions = [k \in {ClientKeys[i] : i \in 1..Len(ClientKeys)} |-> NoSession]
    /\ sessions = <<>>
    /\ main_pc = "init"
    /\ listener_pc = "none"
    /\ npackets = 0
    /\ keys_seen = 0
    /\ handlers = [p \in 1..MaxPackets |-> IdleHandler]
    /\ timeout_queue = <<>>
    /\ workers = [w \in 1..TimeoutWorkers |-> IdleWorker]
    /\ log = <<>>
    /\ finalization = Unaudited
    /\ locks = NoLocks
    /\ graph_run = [node |-> START, messages |-> <<HumanMessage>>]

\* workflow.add_edge(START, "llm_with_tools")
GraphStart ==
    /\ graph_run.node = START
    /\ graph_run' = [graph_run EXCEPT !.node = "llm_with_tools"]
    /\ UNCHANGED server_vars

\* The node llm_with_tools (nodes.py lines 23-43) adds the answer of the model to
\* the messages; the conditional edge then asks is_tool_required where to go.
LlmWithTools ==
    /\ graph_run.node = "llm_with_tools"
    /\ \E calls \in 0..MaxToolCalls :
          /\ calls > 0 => ToolRounds(graph_run.messages) < MaxToolRounds
          /\ LET messages == Append(graph_run.messages, AIMessage(calls))
             IN graph_run' = [node |-> is_tool_required(messages), messages |-> messages]
    /\ UNCHANGED server_vars

\* The node tool_node (ToolNode) runs the tool calls of the last message and adds
\* a ToolMessage for each; workflow.add_edge("tool_node", "llm_with_tools").
ToolNode ==
    /\ graph_run.node = "tool_node"
    /\ LET calls == graph_run.messages[Len(graph_run.messages)].tool_calls
       IN graph_run' = [node |-> "llm_with_tools",
                        messages |-> graph_run.messages \o [i \in 1..calls |-> ToolMessage]]
    /\ UNCHANGED server_vars

NextGraph ==
    \/ GraphStart
    \/ LlmWithTools
    \/ ToolNode

\* The run goes on while it has a node to run.
GraphSpec == InitGraph /\ [][NextGraph]_vars /\ WF_vars(NextGraph)

\* ------------------------------------------------------------------ properties
\* The watcher tasks of a session: submitted and waiting, or running in a thread.
WatcherCount(s) ==
    Cardinality({i \in 1..Len(timeout_queue) : timeout_queue[i] = s})
        + Cardinality({w \in DOMAIN workers : workers[w].session = s})

\* C1: under every interleaving of packet handlers, watcher tasks and shutdown, the
\* finalization body of _process_complete_audio (buffer read, collaborator calls,
\* response) runs at most once for each session object.
PayloadDispatchedAtMostOnce ==
    \A s \in DOMAIN log : log[s].dispatched <= 1

\* A session that took two packets had its buffer read once.
PayloadDispatchedOnce ==
    \E s \in DOMAIN log : log[s].dispatched = 1 /\ Len(log[s].appended) = 2

\* C2: every session has at most one debounce watcher task at any time, whatever
\* number of packets arrive for it: the arm step submits a watcher only when
\* processing_scheduled was false.
AtMostOneWatcher ==
    \A s \in DOMAIN sessions :
        /\ WatcherCount(s) <= 1
        /\ WatcherCount(s) = 1 => sessions[s].processing_scheduled

\* A session took a second packet while its watcher existed, and has one watcher.
SecondPacketArmsNoWatcher ==
    \E s \in DOMAIN sessions : Len(sessions[s].packets) = 2 /\ WatcherCount(s) = 1

\* C3: _process_complete_audio invoked twice on one session, one call after the
\* other or from two threads at once, calls the collaborators at most once; the
\* second invocation does nothing.
SecondInvocationIsNoOp ==
    \A s \in DOMAIN log : log[s].transcribe_calls <= 1

\* C4: when a finalization returns, on whatever path, the session is inactive and
\* the registry no longer holds its key.
FinalizationRemovesSession ==
    [][\A w \in DOMAIN workers :
          (workers[w].pc = "finally_del" /\ workers'[w].pc = "idle") =>
              /\ ~sessions[workers[w].session].active
              /\ ~sessions'[workers[w].session].active
              /\ client_sessions'[sessions[workers[w].session].client_key] = NoSession]_vars

\* A finalization returned and its session is in the registry no more.
FinalizationReturned ==
    \E s \in DOMAIN log :
        /\ log[s].returned
        /\ \A k \in DOMAIN client_sessions : client_sessions[k] # s

\* C5: while the server runs and the collaborator calls return, every session that
\* is registered is eventually removed from the registry, also with more clients
\* than watcher threads.
EverySessionEventuallyRemoved ==
    \A i \in 1..Len(ClientKeys) :
        (client_sessions[ClientKeys[i]] # NoSession)
            ~> (client_sessions[ClientKeys[i]] = NoSession)

\* C6: the finalization reads the buffer only when at least DebounceInterval has
\* passed since the last packet was appended to the session: no packet is appended
\* between the watcher's test and the read.
ReadsOnlyQuietBuffer ==
    \A s \in DOMAIN log :
        log[s].dispatched > 0 => log[s].read_age >= DebounceInterval

\* The i-th chunk's place in the concatenation.
Offset(chunks, i) == SumLen(SubSeq(chunks, 1, i - 1))

\* C7: for every session, total_size is the sum of the lengths of the chunks in
\* packets, the chunks are in the order of the add_packet calls, and
\* get_complete_audio_data is their concatenation in that order.
BufferMatchesAppends ==
    \A s \in DOMAIN sessions :
        LET chunks == sessions[s].packets
            data == get_complete_audio_data(sessions[s])
        IN /\ sessions[s].total_size = SumLen(chunks)
           /\ chunks = log[s].appended
           /\ Len(data) = sessions[s].total_size
           /\ \A i \in 1..Len(chunks) :
                 SubSeq(data, Offset(chunks, i) + 1, Offset(chunks, i + 1)) = chunks[i]

\* A session holds two chunks of different lengths.
TwoChunksBuffered ==
    \E s \in DOMAIN sessions :
        /\ Len(sessions[s].packets) = 2
        /\ Len(sessions[s].packets[1]) # Len(sessions[s].packets[2])

\* C8: when the transcription fails, the pipeline is not invoked for the session
\* and the client gets one ERROR response.
TranscriptionFailureIsTerminal ==
    finalization.transcription = "failed" =>
        /\ finalization.invoke_calls = 0
        /\ Len(finalization.responses) = 1
        /\ finalization.responses[1].status = "ERROR"

\* C9: a finalization that passed the guard sends exactly one response, whatever
\* the plausibility check, the transcription and the pipeline make of the buffer.
ExactlyOneResponse ==
    finalization.session \notin {NoSession, Unaudited.session} =>
        Len(finalization.responses) = 1

\* C10: after a transcription that succeeded the pipeline is invoked at most
\* max_retries + 1 times, and an ERROR response is produced only when all of
\* these attempts raised.
ErrorOnlyAfterAllAttempts ==
    (finalization.transcription = "ok" /\ finalization.invoke_calls > 0) =>
        /\ finalization.invoke_calls <= max_retries + 1
        /\ \A i \in 1..Len(finalization.responses) :
              finalization.responses[i].status = "ERROR" =>
                  finalization.invoke_raised = max_retries + 1

\* The finalization whose history is kept is that of a session with a history.
Audited == finalization.session \in DOMAIN log

\* C11: a session whose assembled buffer is shorter than MinAudioSize gets the one
\* response "ERROR: Invalid audio data", and neither the transcription nor the
\* pipeline is called for it.
ShortBufferIsRefused ==
    (Audited /\ Len(log[finalization.session].payload) < MinAudioSize) =>
        /\ finalization.responses \in
              {<<[status |-> "ERROR", reason |-> "Invalid audio data", sent |-> b]>> :
                  b \in BOOLEAN}
        /\ finalization.transcription = "none"
        /\ finalization.invoke_calls = 0
        /\ log[finalization.session].transcribe_calls = 0

\* A finalization read a buffer below the floor and has answered.
ShortBufferAnswered ==
    /\ Audited
    /\ log[finalization.session].dispatched = 1
    /\ Len(log[finalization.session].payload) \in 1..(MinAudioSize - 1)
    /\ Len(finalization.responses) = 1

\* C12: from the moment stop_server has returned the registry holds no session,
\* whatever handlers, watchers and finalizations were in flight.
RegistryEmptyAfterStop ==
    main_pc = "stopped" => \A k \in DOMAIN client_sessions : client_sessions[k] = NoSession

\* C13: a packet handled for a key that is not in the registry (also a key whose
\* session was removed) gets a new session object with no chunks, total_size 0,
\* active set and processing_scheduled clear.
FreshSessionForAbsentKey ==
    [][\A p \in DOMAIN handlers :
          (/\ handlers[p].pc = "get"
           /\ handlers'[p].pc = "add"
           /\ client_sessions[handlers[p].client_key] = NoSession) =>
              LET id == handlers'[p].session
              IN /\ id \notin DOMAIN sessions
                 /\ client_sessions'[handlers[p].client_key] = id
                 /\ sessions'[id].client_key = handlers[p].client_key
                 /\ sessions'[id].packets = <<>>
                 /\ sessions'[id].total_size = 0
                 /\ sessions'[id].active
                 /\ ~sessions'[id].processing_scheduled]_vars

\* The one client's first session was finalized and removed, and its next packet
\* has a second session, still empty.
SecondSessionOfKey ==
    /\ keys_seen = 1
    /\ Len(sessions) = 2
    /\ log[1].returned
    /\ client_sessions[ClientKeys[1]] = 2
    /\ sessions[2].packets = <<>>
    /\ \E p \in DOMAIN handlers : handlers[p].pc = "add" /\ handlers[p].session = 2

\* C14: whenever a session's active flag is false the registry does not map a key
\* to that session, so no handler can obtain an inactive session from the registry.
InactiveSessionNotRegistered ==
    \A s \in DOMAIN sessions :
        ~sessions[s].active => \A k \in DOMAIN client_sessions : client_sessions[k] # s

\* C15: get-or-create is atomic: while the server is not stopped a key has at most
\* one active session object, and every handler that holds an active session holds
\* the one the registry maps its key to.
OneSessionPerKey ==
    main_pc # "stopped" =>
        /\ \A s1, s2 \in DOMAIN sessions :
              (/\ sessions[s1].active
               /\ sessions[s2].active
               /\ sessions[s1].client_key = sessions[s2].client_key) => s1 = s2
        /\ \A p \in DOMAIN handlers :
              (handlers[p].pc = "add" /\ sessions[handlers[p].session].active) =>
                  /\ client_sessions[handlers[p].client_key] = handlers[p].session
                  /\ sessions[handlers[p].session].client_key = handlers[p].client_key

\* Two handlers of one new key are about to append to the one session made for it.
TwoHandlersOneSession ==
    /\ Len(sessions) = 1
    /\ \E p, q \in DOMAIN handlers :
          /\ p # q
          /\ handlers[p].pc = "add"
          /\ handlers[q].pc = "add"
          /\ handlers[p].session = handlers[q].session
          /\ sessions[handlers[p].session].packets = <<>>

\* C16: an error of the socket receive while the server runs does not end the
\* listener loop: the loop is left only when the bind failed or the server was
\* stopped, that is, never while is_running is set.
ListenerEndsOnlyWhenNotRunning ==
    listener_pc = "stopped" => ~is_running

\* C17: a response send that fails is swallowed: the finalization still returns
\* with the session inactive and its key out of the registry, and the failure
\* causes no further response (the only response that can follow another is the
\* one of the unbound agent_response, which follows a sent response as well).
SendFailureIsSwallowed ==
    [][\A w \in DOMAIN workers :
          (/\ workers[w].pc = "finally_del"
           /\ workers'[w].pc = "idle"
           /\ finalization.session = workers[w].session
           /\ \E i \in 1..Len(finalization.responses) : ~finalization.responses[i].sent) =>
              /\ ~sessions[workers[w].session].active
              /\ client_sessions'[sessions[workers[w].session].client_key] = NoSession
              /\ Len(finalization.responses) <= 2
              /\ \A i \in 2..Len(finalization.responses) :
                    finalization.responses[i].reason = "agent_response is not bound"]_vars

\* A finalization whose only response could not be sent is about to return.
SendFailed ==
    /\ Audited
    /\ Len(finalization.responses) = 1
    /\ ~finalization.responses[1].sent
    /\ \E w \in DOMAIN workers :
          workers[w].pc = "finally_del" /\ workers[w].session = finalization.session

\* C18: every response is a SUCCESS or an ERROR response, and a SUCCESS response is
\* sent only when an invocation of the pipeline for the session returned.
SuccessOnlyAfterPipelineReturned ==
    \A i \in 1..Len(finalization.responses) :
        /\ finalization.responses[i].status \in {"SUCCESS", "ERROR"}
        /\ finalization.responses[i].status = "SUCCESS" =>
              /\ finalization.invoke_calls \in 1..(max_retries + 1)
              /\ finalization.invoke_raised = finalization.invoke_calls - 1

\* The pipeline returned at its last attempt and the SUCCESS response was sent.
SuccessAtLastAttempt ==
    /\ Audited
    /\ finalization.invoke_calls = max_retries + 1
    /\ finalization.invoke_raised = max_retries
    /\ finalization.responses # <<>>
    /\ finalization.responses[1].status = "SUCCESS"
    /\ finalization.responses[1].sent

\* C19: stop_server returns without waiting for submitted work, and from its return
\* on both pools take no new task: no handler task is accepted and no watcher is
\* submitted.
StopDoesNotWait ==
    [][main_pc' = "stopped" =>
          /\ executor_shutdown'
          /\ timeout_shutdown'
          /\ Len(timeout_queue') <= Len(timeout_queue)
          /\ \A p \in DOMAIN handlers :
                handlers'[p].pc = "check" => handlers[p].pc = "check"]_vars

\* stop_server has returned while one finalization is inside a collaborator call
\* and a watcher sleeps.
StoppedWhileWorkInFlight ==
    /\ main_pc = "stopped"
    /\ \E w \in DOMAIN workers : workers[w].pc = "dispatch"
    /\ \E w \in DOMAIN workers : workers[w].pc = "sleep" /\ workers[w].remaining > 0

\* Both threads of the watcher pool are occupied: asleep or in a collaborator call.
WatchersOccupied ==
    \A w \in DOMAIN workers :
        \/ workers[w].pc = "sleep" /\ workers[w].remaining > 0
        \/ workers[w].pc = "dispatch"

\* C20: while both threads of the watcher pool are occupied, a datagram that was
\* submitted to the packet pool is still handled: each step of its handler can be
\* taken, and the last one appends the datagram to its (active) session.
IntakeNotStarved ==
    WatchersOccupied =>
        \A p \in DOMAIN handlers :
            /\ handlers[p].pc = "check" => ENABLED HandleCheck(p)
            /\ handlers[p].pc = "get" => ENABLED HandleGetOrCreate(p)
            /\ (handlers[p].pc = "add" /\ sessions[handlers[p].session].active) =>
                  ENABLED (/\ HandleAddPacket(p)
                           /\ sessions'[handlers[p].session].packets =
                                 Append(sessions[handlers[p].session].packets,
                                        handlers[p].packet_data))

\* Both watcher threads have been occupied for a while by two sessions, and the
\* datagram of a third client has just been appended to its session.
AppendedWhileWatchersOccupied ==
    /\ \A w \in DOMAIN workers :
          \/ workers[w].pc = "sleep" /\ workers[w].remaining \in 1..(DebounceInterval - 1)
          \/ workers[w].pc = "dispatch"
    /\ \E s \in DOMAIN sessions :
          /\ \A w \in DOMAIN workers : workers[w].session # s
          /\ sessions[s].packets # <<>>
          /\ log[s].append_age = 0
          /\ timeout_queue = <<s>>

\* The chunks of a session in the order in which their datagrams arrived.
InArrivalOrder(s) ==
    LET n == Len(log[s].order)
        rank(i) == Cardinality({j \in 1..n : log[s].order[j] <= log[s].order[i]})
    IN [k \in 1..n |-> log[s].appended[CHOOSE i \in 1..n : rank(i) = k]]

\* C21: a client that sends its datagrams (each less than DebounceInterval after
\* the one before, a watcher thread being free) and then goes quiet has one
\* finalization; it starts at least DebounceInterval and less than twice
\* DebounceInterval after the last datagram and reads all the client's datagrams,
\* concatenated in the order of their arrival.
BurstFinalizedOnceInArrivalOrder ==
    \A s \in DOMAIN log :
        /\ log[s].dispatched <= 1
        /\ log[s].dispatched = 1 =>
              /\ log[s].read_age \in DebounceInterval..(2 * DebounceInterval - 1)
              /\ Len(log[s].appended) = npackets
              /\ log[s].payload = Join(InArrivalOrder(s))

\* C22: every chunk that add_packet appends to a session is part of the payload
\* its finalization reads: once the finalization has read the buffer, nothing more
\* is appended to the session (to be discarded with it).
NoAppendAfterRead ==
    \A s \in DOMAIN log :
        log[s].dispatched > 0 => log[s].payload = Join(log[s].appended)

\* C23: while the server runs, every registered session whose processing_scheduled
\* flag is set has a watcher task that is queued, sleeping or finalizing: no
\* watcher ends and leaves its session registered, active and marked as scheduled.
ScheduledSessionHasWatcher ==
    is_running =>
        \A k \in DOMAIN client_sessions :
            (/\ client_sessions[k] # NoSession
             /\ sessions[client_sessions[k]].processing_scheduled) =>
                WatcherCount(client_sessions[k]) >= 1

\* The bytes FF and one with its three top bits set, starting in one of the places
\* 1..last of the buffer.
has_sync_pair(data, last) ==
    \E i \in 1..last : data[i] = 255 /\ data[i + 1] \div 32 = 7

\* A buffer of at least MinAudioSize bytes that has a RIFF....WAVE header, an ID3
\* prefix or a sync pair that starts `tail` bytes or more before its last byte, or
\* is longer than RawPcmSize.
plausible(data, tail) ==
    /\ Len(data) >= MinAudioSize
    /\ \/ SubSeq(data, 1, 4) = <<82, 73, 70, 70>> /\ SubSeq(data, 9, 12) = <<87, 65, 86, 69>>
       \/ SubSeq(data, 1, 3) = <<73, 68, 51>>
       \/ has_sync_pair(data, Len(data) - tail)
       \/ Len(data) > RawPcmSize

\* The finalization goes on to the collaborators with exactly the buffers that are
\* plausible(_, tail); it answers every other buffer with the one response
\* "ERROR: Invalid audio data" and calls no collaborator for it.
accepts_exactly(tail) ==
    \A w \in DOMAIN workers :
        LET s == workers[w].session
            ok == plausible(log[s].payload, tail)
        IN /\ workers[w].pc = "dispatch" => ok
           /\ workers[w].pc = "invalid" => ~ok
           /\ (workers[w].pc = "finally_del" /\ finalization.session = s) =>
                 IF ok
                 THEN /\ log[s].transcribe_calls = 1
                      /\ finalization.transcription # "none"
                 ELSE /\ finalization.responses =
                            <<[status |-> "ERROR", reason |-> "Invalid audio data",
                               sent |-> TRUE]>>
                      /\ log[s].transcribe_calls = 0
                      /\ finalization.transcription = "none"
                      /\ finalization.invoke_calls = 0

\* C24 as stated: the plausibility check accepts a buffer exactly when it has at
\* least MinAudioSize bytes and either a RIFF....WAVE header, an ID3 prefix or a
\* sync pair (FF, then a byte with its three top bits set) anywhere in it, or more
\* than RawPcmSize bytes; every other buffer is refused with an ERROR response
\* and the rest of the finalization is skipped.
AcceptsSignatureOrLargeBuffer ==
    accepts_exactly(1)

\* C24: the same, where the sync pair counts only if two bytes or more follow it
\* in the buffer (the four bytes of a frame header are there).
AcceptsSignatureWithFullFrameHeader ==
    accepts_exactly(3)

\* A buffer of MinAudioSize bytes or more whose only signature is a sync pair in
\* its last two places was refused and answered.
SyncPairAtEndRefused ==
    \E w \in DOMAIN workers :
        LET data == log[workers[w].session].payload
        IN /\ workers[w].pc = "finally_del"
           /\ Len(data) >= MinAudioSize
           /\ data[Len(data) - 1] = 255
           /\ data[Len(data)] \div 32 = 7
           /\ finalization.responses # <<>>
           /\ finalization.responses[1].status = "ERROR"

\* C25: convert_to_wav returns a buffer that has the RIFF/WAVE header unchanged and
\* an odd-length buffer without it unchanged, and puts a WAV header before an
\* even-length buffer without it; converting its result again changes nothing.
NormalizationIsIdempotent ==
    \A w \in DOMAIN workers :
        (/\ workers[w].pc = "finally_del"
         /\ finalization.session = workers[w].session
         /\ finalization.transcription # "none") =>
            LET audio_data == log[workers[w].session].payload
                wav_data == finalization.wav_data
                is_wav == /\ SubSeq(audio_data, 1, 4) = <<82, 73, 70, 70>>
                          /\ SubSeq(audio_data, 9, 12) = <<87, 65, 86, 69>>
            IN /\ is_wav => wav_data = audio_data
               /\ (~is_wav /\ Len(audio_data) % 2 = 1) => wav_data = audio_data
               /\ (~is_wav /\ Len(audio_data) % 2 = 0) =>
                     /\ Len(wav_data) = 44 + Len(audio_data)
                     /\ SubSeq(wav_data, 1, 4) = <<82, 73, 70, 70>>
                     /\ SubSeq(wav_data, 9, 12) = <<87, 65, 86, 69>>
                     /\ SubSeq(wav_data, 45, Len(wav_data)) = audio_data
               /\ convert_to_wav(wav_data) = wav_data

\* An even-length buffer without the header was given to the transcription in a
\* WAV container.
RawBufferWrapped ==
    /\ Audited
    /\ finalization.transcription # "none"
    /\ Len(log[finalization.session].payload) % 2 = 0
    /\ Len(finalization.wav_data) = 44 + Len(log[finalization.session].payload)

\* C27: a run of the pipeline graph starts at llm_with_tools; after a step of
\* llm_with_tools it goes to tool_node exactly when the last message has tool
\* calls and ends otherwise; a step of tool_node is always followed by a step of
\* llm_with_tools, so no run ends right after a tool step.
PipelineRouting ==
    /\ [][LET node == graph_run.node
              next == graph_run'.node
              last == graph_run'.messages[Len(graph_run'.messages)]
          IN /\ node = START => next = "llm_with_tools"
             /\ node = "llm_with_tools" =>
                   /\ next \in {"tool_node", END}
                   /\ next = "tool_node" <=> (last.type = "ai" /\ last.tool_calls > 0)
             /\ node = "tool_node" => next = "llm_with_tools"
             /\ next = END => node = "llm_with_tools"
             /\ node # END]_graph_run
    /\ (graph_run.node = "tool_node") ~> (graph_run.node = "llm_with_tools")

\* A run that went through tool_node twice has ended, its last message an answer
\* without tool calls.
RunEndedAfterTools ==
    /\ graph_run.node = END
    /\ ToolRounds(graph_run.messages) = 2
    /\ graph_run.messages[Len(graph_run.messages)] = AIMessage(0)


\* The threads that take locks: stop_server's caller, the packet handlers and the
\* watchers with their finalizations.
Threads ==
    {MainThread} \cup {HandlerThread(p) : p \in DOMAIN handlers}
                 \cup {WorkerThread(w) : w \in DOMAIN workers}

\* The thread waits for a lock another thread holds.
waits_for(thread) ==
    \/ /\ thread = MainThread
       /\ main_pc = "stopping"
       /\ ~lock_free(RegistryLock)
    \/ \E p \in DOMAIN handlers :
          /\ thread = HandlerThread(p)
          /\ \/ handlers[p].pc = "get" /\ ~lock_free(RegistryLock)
             \/ handlers[p].pc \in {"add", "arm"} /\ ~lock_free(handlers[p].session)
    \/ \E w \in DOMAIN workers :
          /\ thread = WorkerThread(w)
          /\ \/ workers[w].pc = "read" /\ ~lock_free(workers[w].session)
             \/ workers[w].pc = "finally_del" /\ ~lock_free(RegistryLock)

\* The thread can take the step that ends its critical section.
can_leave(thread) ==
    \/ thread = MainThread /\ ENABLED ClearLocked
    \/ \E p \in DOMAIN handlers :
          /\ thread = HandlerThread(p)
          /\ ENABLED (GetOrCreateLocked(p) \/ AddPacketLocked(p) \/ ArmLocked(p))
    \/ \E w \in DOMAIN workers :
          /\ thread = WorkerThread(w)
          /\ ENABLED (ReadLocked(w) \/ RemoveLocked(w))

\* C26: no thread holds the registry lock together with a session lock; a thread
\* that holds a lock is inside one of the short blocks of the code (never in the
\* watcher's sleep, in a collaborator call or waiting for another lock) and its
\* next step, which gives the lock back, can be taken; so no handler, watcher,
\* finalization or stop_server waits for a lock that will never be free.
LocksNeverNestedNorHeldWhileBlocked ==
    /\ \A t \in Threads :
          /\ Cardinality(held(t)) <= 1
          /\ held(t) # {} => ~waits_for(t) /\ can_leave(t)
    /\ \A x \in locks, y \in locks : x[2] = y[2] => x = y
    /\ held(MainThread) # {} => main_pc = "clear_locked"
    /\ \A p \in DOMAIN handlers : held(HandlerThread(p)) # {} =>
          handlers[p].pc \in {"get_locked", "add_locked", "arm_locked"}
    /\ \A w \in DOMAIN workers : held(WorkerThread(w)) # {} =>
          workers[w].pc \in {"read_locked", "del_locked"}

\* C26 witness: stop_server waits for the registry lock that a packet handler
\* holds, while a finalization holds the lock of another session.
StopWaitsWhileBothLocksHeld ==
    /\ main_pc = "stopping"
    /\ \E p \in DOMAIN handlers : RegistryLock \in held(HandlerThread(p))
    /\ \E w \in DOMAIN workers : held(WorkerThread(w)) \ {RegistryLock} # {}

====
